---- MODULE Spec2Model ----
(***************************************************************************)
(* Model of assert-json's primitive validators (src/validators/mod.rs):    *)
(* any(), eq(expected), the Validator::validate implementations of         *)
(* AnyValidator and EqValidator<T>, and the From<literal> conversions to   *)
(* Box<dyn Validator>.                                                     *)
(*                                                                         *)
(* Text is modelled as a sequence of one-character strings, so that the    *)
(* Debug rendering of the expected value is computed character by          *)
(* character.  A borrowed &Value is modelled as an address into `heap`.    *)
(***************************************************************************)
EXTENDS Integers, Sequences, FiniteSets, TLC

\* -------------------------------------------------------------------------
\* Bounds of the model
\* -------------------------------------------------------------------------
\* number of Value objects the caller owns and can lend to validate
NumVals == 2
\* number of threads sharing one validator
NumThreads == 2

\* -------------------------------------------------------------------------
\* Text
\* -------------------------------------------------------------------------
Chars == {"4", "\""}

\* The strings used as inputs: a digit (renders like the number 4) and a
\* quote (which Debug escapes).
Strs == {<<"4">>, <<"\"">>}

\* The integers used as inputs, by signedness of the primitive kind.
UnsignedInts == {4}

SignedInts == {-1, 4}

\* Magnitudes of the finite floats used as inputs.
FloatMags == {0, 4}

RECURSIVE Concat(_)
Concat(ss) == IF ss = <<>> THEN <<>> ELSE Head(ss) \o Concat(Tail(ss))

DigitChars == <<"0", "1", "2", "3", "4", "5", "6", "7", "8", "9">>

\* Display of a non-negative integer: its decimal digits.
RECURSIVE FmtNat(_)
FmtNat(n) == IF n < 10 THEN <<DigitChars[n + 1]>>
             ELSE FmtNat(n \div 10) \o <<DigitChars[(n % 10) + 1]>>

\* Display/Debug of an integer of any primitive kind.
FmtInt(i) == IF i < 0 THEN <<"-">> \o FmtNat(-i) ELSE FmtNat(i)

\* Debug of a string: quoted, with quotes and backslashes escaped.
EscapeChar(c) == IF c \in {"\"", "\\"} THEN <<"\\", c>> ELSE <<c>>

FmtStrDebug(s) == <<"\"">> \o Concat([k \in 1..Len(s) |-> EscapeChar(s[k])]) \o <<"\"">>

FmtBool(b) == IF b THEN <<"t", "r", "u", "e">> ELSE <<"f", "a", "l", "s", "e">>

\* -------------------------------------------------------------------------
\* Floating point values (f32 / f64): finite integral values with a sign
\* bit (so that -0.0 and 0.0 are distinct bit patterns), infinities and NaN.
\* -------------------------------------------------------------------------
FiniteFloats == [cls : {"fin"}, neg : BOOLEAN, mag : {0}] \cup [cls : {"fin"}, neg : {FALSE}, mag : FloatMags]

Floats == FiniteFloats \cup [cls : {"inf"}, neg : {FALSE}, mag : {0}]
                       \cup [cls : {"nan"}, neg : {FALSE}, mag : {0}]

\* IEEE-754 ==
FloatEq(f, g) ==
    /\ f.cls # "nan"
    /\ g.cls # "nan"
    /\ \/ f = g
       \/ f.cls = "fin" /\ g.cls = "fin" /\ f.mag = 0 /\ g.mag = 0

\* Debug/Display of a float: "1.0", "-0.0", "inf", "-inf", "NaN"
FmtFloat(f) ==
    CASE f.cls = "nan" -> <<"N", "a", "N">>
      [] f.cls = "inf" -> (IF f.neg THEN <<"-">> ELSE <<>>) \o <<"i", "n", "f">>
      [] OTHER -> (IF f.neg THEN <<"-">> ELSE <<>>) \o FmtNat(f.mag) \o <<".", "0">>

\* -------------------------------------------------------------------------
\* Value: Null | Bool | Number | String | Array | Object
\* -------------------------------------------------------------------------
Null == [tag |-> "Null"]

Bool(b) == [tag |-> "Bool", b |-> b]

PosInt(i) == [k |-> "PosInt", i |-> i]

NegInt(i) == [k |-> "NegInt", i |-> i]

Float(f) == [k |-> "Float", f |-> f]

Number(n) == [tag |-> "Number", n |-> n]

String(s) == [tag |-> "String", s |-> s]

Array(a) == [tag |-> "Array", a |-> a]

Object(m) == [tag |-> "Object", m |-> m]

Numbers == {Number(PosInt(i)) : i \in UnsignedInts}
           \cup {Number(NegInt(i)) : i \in {j \in SignedInts : j < 0}}
           \cup {Number(Float(f)) : f \in FiniteFloats}

Scalars == {Null} \cup {Bool(b) : b \in BOOLEAN} \cup Numbers
           \cup {String(s) : s \in Strs}

Zeros == {Number(Float(f)) : f \in [cls : {"fin"}, neg : BOOLEAN, mag : {0}]}

Arrays == {Array(<<>>)} \cup {Array(<<e>>) : e \in Zeros}

Objects == {Object([key \in {} |-> Null]), Object([key \in {<<"4">>} |-> Null])}

Values == Scalars \cup Arrays \cup Objects

\* The values the caller lends to validate: one or two of each variant.
Inspected ==
    {Null, Bool(TRUE), String(<<"4">>), Array(<<>>), Object([key \in {} |-> Null]),
     Number(PosInt(4)), Number(NegInt(-1)),
     Number(Float([cls |-> "fin", neg |-> FALSE, mag |-> 0])),
     Number(Float([cls |-> "fin", neg |-> FALSE, mag |-> 4])),
     Array(<<Number(Float([cls |-> "fin", neg |-> FALSE, mag |-> 0]))>>)}

\* PartialEq of the number representation: same kind and equal payload.
NumberEq(n, m) ==
    /\ n.k = m.k
    /\ IF n.k = "Float" THEN FloatEq(n.f, m.f) ELSE n.i = m.i

\* PartialEq of Value: structural, variant by variant.
RECURSIVE ValueEq(_, _)
ValueEq(v, w) ==
    /\ v.tag = w.tag
    /\ CASE v.tag = "Null" -> TRUE
         [] v.tag = "Bool" -> v.b = w.b
         [] v.tag = "Number" -> NumberEq(v.n, w.n)
         [] v.tag = "String" -> v.s = w.s
         [] v.tag = "Array" ->
                /\ Len(v.a) = Len(w.a)
                /\ \A k \in 1..Len(v.a) : ValueEq(v.a[k], w.a[k])
         [] v.tag = "Object" ->
                /\ DOMAIN v.m = DOMAIN w.m
                /\ \A key \in DOMAIN v.m : ValueEq(v.m[key], w.m[key])

\* The discriminant of a value's variant.
get_value_type_id(v) == v.tag

TypeIds == {get_value_type_id(v) : v \in Values}

\* Display of a number (integers in decimal, floats with a fraction).
FmtNumber(n) == IF n.k = "Float" THEN FmtFloat(n.f) ELSE FmtInt(n.i)

\* Debug of a Value: the variant's name around the payload.
RECURSIVE FmtValueDebug(_)
FmtValueDebug(v) ==
    CASE v.tag = "Null" -> <<"N", "u", "l", "l">>
      [] v.tag = "Bool" -> <<"B", "o", "o", "l", "(">> \o FmtBool(v.b) \o <<")">>
      [] v.tag = "Number" ->
            <<"N", "u", "m", "b", "e", "r", "(">> \o FmtNumber(v.n) \o <<")">>
      [] v.tag = "String" ->
            <<"S", "t", "r", "i", "n", "g", "(">> \o FmtStrDebug(v.s) \o <<")">>
      [] v.tag = "Array" ->
            <<"A", "r", "r", "a", "y", " ", "[">>
            \o Concat([k \in 1..Len(v.a) |->
                    (IF k > 1 THEN <<",", " ">> ELSE <<>>) \o FmtValueDebug(v.a[k])])
            \o <<"]">>
      [] v.tag = "Object" ->
            <<"O", "b", "j", "e", "c", "t", " ", "{">>
            \o (IF DOMAIN v.m = {} THEN <<>>
                ELSE LET key == CHOOSE x \in DOMAIN v.m : TRUE
                     IN FmtStrDebug(key) \o <<":", " ">> \o FmtValueDebug(v.m[key]))
            \o <<"}">>

\* -------------------------------------------------------------------------
\* T: the types an expected value can have (Into<Value> + Clone + Debug)
\* -------------------------------------------------------------------------
UnsignedKinds == {"u8", "u16", "u32", "u64", "usize"}

SignedKinds == {"i8", "i16", "i32", "i64", "isize"}

FloatKinds == {"f32", "f64"}

\* The types of the literal conversions, in the order of the macro call.
PrimitiveKinds == {"String", "bool"} \cup UnsignedKinds \cup SignedKinds \cup FloatKinds

Literals ==
    [ty : {"String", "&str"}, s : Strs]
    \cup [ty : {"bool"}, b : BOOLEAN]
    \cup [ty : UnsignedKinds, i : UnsignedInts]
    \cup [ty : SignedKinds, i : SignedInts]
    \cup [ty : FloatKinds, f : Floats]

Expecteds == Literals \cup [ty : {"()"}] \cup [ty : {"Value"}, val : Values]

\* T::into(): the conversion of each type into a Value.  A float that is
\* not finite has no Number and becomes Null.
IntoValue(x) ==
    CASE x.ty \in {"String", "&str"} -> String(x.s)
      [] x.ty = "bool" -> Bool(x.b)
      [] x.ty \in UnsignedKinds -> Number(PosInt(x.i))
      [] x.ty \in SignedKinds ->
            IF x.i < 0 THEN Number(NegInt(x.i)) ELSE Number(PosInt(x.i))
      [] x.ty \in FloatKinds ->
            IF x.f.cls = "fin" THEN Number(Float(x.f)) ELSE Null
      [] x.ty = "()" -> Null
      [] x.ty = "Value" -> x.val

\* format!("{:?}", x) of each type.
FmtDebug(x) ==
    CASE x.ty \in {"String", "&str"} -> FmtStrDebug(x.s)
      [] x.ty = "bool" -> FmtBool(x.b)
      [] x.ty \in UnsignedKinds \cup SignedKinds -> FmtInt(x.i)
      [] x.ty \in FloatKinds -> FmtFloat(x.f)
      [] x.ty = "()" -> <<"(", ")">>
      [] x.ty = "Value" -> FmtValueDebug(x.val)

\* -------------------------------------------------------------------------
\* Results and errors.  An error borrows the inspected value: `ref` is the
\* address of the value handed to validate.
\* -------------------------------------------------------------------------
Addrs == 1..NumVals

Ok == [kind |-> "Ok"]

InvalidType(ref, type_id) == [kind |-> "InvalidType", ref |-> ref, type_id |-> type_id]

InvalidValue(ref, expected) == [kind |-> "InvalidValue", ref |-> ref, expected |-> expected]

\* -------------------------------------------------------------------------
\* Validators
\* -------------------------------------------------------------------------
AnyValidator == [kind |-> "any"]

EqValidator(expected) == [kind |-> "eq", expected |-> expected]

any == AnyValidator

eq(expected) == EqValidator(expected)

\* From<$ty> for Box<dyn Validator>, one per type of the macro call.
FromPrimitive(u) == eq(u)

\* Variant of From<&str> that stores the Debug rendering of the literal.
FromStr_quoted(str_input) == eq([ty |-> "String", s |-> FmtStrDebug(str_input.s)])

\* From<&str> for Box<dyn Validator>
FromStr(str_input) == eq([ty |-> "String", s |-> str_input.s])

\* literal.into(): the conversion selected by the literal's type.
FromLiteral(l) == IF l.ty = "&str" THEN FromStr(l) ELSE FromPrimitive(l)

\* Variant of AnyValidator::validate that treats Null as a missing value.
AnyValidator_validate_rejects_null(self, mem, value) ==
    IF mem[value] = Null THEN InvalidType(value, get_value_type_id(Null)) ELSE Ok

\* AnyValidator::validate
AnyValidator_validate(self, mem, value) == Ok

\* Variant of EqValidator::validate that reports the type id of the inspected
\* value instead of the expected one.
EqValidator_validate_actual_type(self, mem, value) ==
    LET expected_val == IntoValue(self.expected)
    IN IF get_value_type_id(expected_val) # get_value_type_id(mem[value])
       THEN InvalidType(value, get_value_type_id(mem[value]))
       ELSE IF ValueEq(mem[value], expected_val)
            THEN Ok
            ELSE InvalidValue(value, FmtDebug(self.expected))

\* Variant that renders the converted Value instead of the stored expected.
EqValidator_validate_debug_converted(self, mem, value) ==
    LET expected_val == IntoValue(self.expected)
    IN IF get_value_type_id(expected_val) # get_value_type_id(mem[value])
       THEN InvalidType(value, get_value_type_id(expected_val))
       ELSE IF ValueEq(mem[value], expected_val)
            THEN Ok
            ELSE InvalidValue(value, FmtValueDebug(expected_val))

\* Variant that compares the Debug renderings instead of the values.
EqValidator_validate_compare_rendered(self, mem, value) ==
    LET expected_val == IntoValue(self.expected)
    IN IF get_value_type_id(expected_val) # get_value_type_id(mem[value])
       THEN InvalidType(value, get_value_type_id(expected_val))
       ELSE IF FmtValueDebug(mem[value]) = FmtDebug(self.expected)
            THEN Ok
            ELSE InvalidValue(value, FmtDebug(self.expected))

\* Variant that compares representations instead of using PartialEq.
EqValidator_validate_same_bits(self, mem, value) ==
    LET expected_val == IntoValue(self.expected)
    IN IF get_value_type_id(expected_val) # get_value_type_id(mem[value])
       THEN InvalidType(value, get_value_type_id(expected_val))
       ELSE IF mem[value] = expected_val
            THEN Ok
            ELSE InvalidValue(value, FmtDebug(self.expected))

\* Variant that unwraps the conversion of a float: a float that is not
\* finite makes the call panic.
EqValidator_validate_unwrap(self, mem, value) ==
    LET expected_val == IntoValue(self.expected)
    IN IF self.expected.ty \in FloatKinds /\ self.expected.f.cls # "fin"
       THEN [kind |-> "Panic"]
       ELSE IF get_value_type_id(expected_val) # get_value_type_id(mem[value])
            THEN InvalidType(value, get_value_type_id(expected_val))
            ELSE IF ValueEq(mem[value], expected_val)
                 THEN Ok
                 ELSE InvalidValue(value, FmtDebug(self.expected))

\* EqValidator::validate, where `value` is the address of the borrowed
\* Value in `mem`.
EqValidator_validate(self, mem, value) ==
    LET expected_val == IntoValue(self.expected)
    IN IF get_value_type_id(expected_val) # get_value_type_id(mem[value])
       THEN InvalidType(value, get_value_type_id(expected_val))
       ELSE IF ValueEq(mem[value], expected_val)
            THEN Ok
            ELSE InvalidValue(value, FmtDebug(self.expected))

\* Validator::validate through dynamic dispatch.
validate(self, mem, value) ==
    IF self.kind = "any"
    THEN AnyValidator_validate(self, mem, value)
    ELSE EqValidator_validate(self, mem, value)

\* -------------------------------------------------------------------------
\* State
\* -------------------------------------------------------------------------
VARIABLES
    validator,      \* the validator in scope, or NoValidator
    built,          \* how `validator` was built: the constructor and its argument
    heap,           \* the caller's Value objects, by address
    results,        \* by address: what the latest validate(&heap[a]) returned
    pc,             \* per thread: its position in validate
    arg,            \* per thread: the `value` argument (an address)
    expected_val,   \* per thread: the local `expected_val`
    ret             \* per thread: the value returned

vars == <<validator, built, heap, results, pc, arg, expected_val, ret>>

Threads == 1..NumThreads

NoValidator == [kind |-> "none"]

NoResult == [kind |-> "none"]

NoAddr == NumVals + 1

Uninit == [tag |-> "Uninit"]

threadVars == <<pc, arg, expected_val, ret>>

ThreadsIdle ==
    /\ pc = [t \in Threads |-> "idle"]
    /\ arg = [t \in Threads |-> NoAddr]
    /\ expected_val = [t \in Threads |-> Uninit]
    /\ ret = [t \in Threads |-> NoResult]

Init ==
    /\ validator = NoValidator
    /\ built = [how |-> "none"]
    /\ heap \in [Addrs -> Inspected]
    /\ results = [a \in Addrs |-> NoResult]
    /\ ThreadsIdle

\* -------------------------------------------------------------------------
\* Single-threaded use: construct, validate any number of times, drop
\* -------------------------------------------------------------------------
\* let validator = any();
ConstructAny ==
    /\ validator = NoValidator
    /\ validator' = any
    /\ built' = [how |-> "any"]
    /\ UNCHANGED <<heap, results, threadVars>>

\* let validator = eq(expected);
ConstructEq ==
    \E expected \in Expecteds :
        /\ validator = NoValidator
        /\ validator' = eq(expected)
        /\ built' = [how |-> "eq", arg |-> expected]
        /\ UNCHANGED <<heap, results, threadVars>>

\* let validator: Box<dyn Validator> = literal.into();
ConstructFrom ==
    \E l \in Literals :
        /\ validator = NoValidator
        /\ l.ty \in PrimitiveKinds \cup {"&str"}
        /\ validator' = FromLiteral(l)
        /\ built' = [how |-> "from", arg |-> l]
        /\ UNCHANGED <<heap, results, threadVars>>

\* Variant of the call in which the validator answers Ok once it has
\* produced a result.
Validate_sticky ==
    \E a \in Addrs :
        /\ validator # NoValidator
        /\ results' = [results EXCEPT ![a] =
                          IF \E b \in Addrs : results[b] # NoResult
                          THEN Ok
                          ELSE validate(validator, heap, a)]
        /\ UNCHANGED <<validator, built, heap, threadVars>>

\* Variant of the call in which an eq validator keeps the converted Value
\* in place of the expected value.
Validate_caching ==
    \E a \in Addrs :
        /\ validator # NoValidator
        /\ results' = [results EXCEPT ![a] = validate(validator, heap, a)]
        /\ validator' = IF validator.kind = "eq"
                         THEN eq([ty |-> "Value", val |-> IntoValue(validator.expected)])
                         ELSE validator
        /\ UNCHANGED <<built, heap, threadVars>>

\* validator.validate(&heap[a]): the whole call.  `&self` and `&Value` are
\* shared borrows: neither the validator nor the value is written.
Validate ==
    \E a \in Addrs :
        /\ validator # NoValidator
        /\ results' = [results EXCEPT ![a] = validate(validator, heap, a)]
        /\ UNCHANGED <<validator, built, heap, threadVars>>

\* The validator and the results borrowed from the values go out of scope.
Drop ==
    /\ validator # NoValidator
    /\ validator' = NoValidator
    /\ built' = [how |-> "none"]
    /\ results' = [a \in Addrs |-> NoResult]
    /\ UNCHANGED <<heap, threadVars>>

Next ==
    \/ ConstructAny
    \/ ConstructEq
    \/ ConstructFrom
    \/ Validate
    \/ Drop

Spec == Init /\ [][Next]_vars

\* -------------------------------------------------------------------------
\* Several threads calling validate on one shared validator, step by step
\* -------------------------------------------------------------------------
\* The expected values and the inspected values of the shared runs.
SharedExpecteds ==
    {[ty |-> "u8", i |-> 4], [ty |-> "&str", s |-> <<"4">>],
     [ty |-> "f64", f |-> [cls |-> "nan", neg |-> FALSE, mag |-> 0]],
     [ty |-> "f64", f |-> [cls |-> "fin", neg |-> TRUE, mag |-> 0]]}

SharedInspected ==
    {Null, String(<<"4">>), Number(PosInt(4)),
     Number(Float([cls |-> "fin", neg |-> FALSE, mag |-> 0]))}

InitShared ==
    /\ \/ validator = any /\ built = [how |-> "any"]
       \/ \E expected \in SharedExpecteds :
             validator = eq(expected) /\ built = [how |-> "eq", arg |-> expected]
    /\ heap \in [Addrs -> SharedInspected]
    /\ results = [a \in Addrs |-> NoResult]
    /\ ThreadsIdle

\* A thread calls validator.validate(&heap[a]).
Call(t) ==
    \E a \in Addrs :
        /\ pc[t] = "idle"
        /\ arg' = [arg EXCEPT ![t] = a]
        /\ pc' = [pc EXCEPT ![t] = "entry"]
        /\ UNCHANGED <<validator, built, heap, results, expected_val, ret>>

\* AnyValidator::validate: Ok(())
AnyBody(t) ==
    /\ pc[t] = "entry"
    /\ validator.kind = "any"
    /\ ret' = [ret EXCEPT ![t] = Ok]
    /\ pc' = [pc EXCEPT ![t] = "done"]
    /\ UNCHANGED <<validator, built, heap, results, arg, expected_val>>

\* Variant of the conversion that converts the stored expected in place.
Convert_in_place(t) ==
    /\ pc[t] = "entry"
    /\ validator.kind = "eq"
    /\ expected_val' = [expected_val EXCEPT ![t] = IntoValue(validator.expected)]
    /\ validator' = eq([ty |-> "Value", val |-> IntoValue(validator.expected)])
    /\ pc' = [pc EXCEPT ![t] = "typecheck"]
    /\ UNCHANGED <<built, heap, results, arg, ret>>

\* let expected_val = self.expected.clone().into();
Convert(t) ==
    /\ pc[t] = "entry"
    /\ validator.kind = "eq"
    /\ expected_val' = [expected_val EXCEPT ![t] = IntoValue(validator.expected)]
    /\ pc' = [pc EXCEPT ![t] = "typecheck"]
    /\ UNCHANGED <<validator, built, heap, results, arg, ret>>

\* if get_value_type_id(&expected_val) != get_value_type_id(value) { return Err(..) }
TypeCheck(t) ==
    /\ pc[t] = "typecheck"
    /\ IF get_value_type_id(expected_val[t]) # get_value_type_id(heap[arg[t]])
       THEN /\ ret' = [ret EXCEPT ![t] =
                        InvalidType(arg[t], get_value_type_id(expected_val[t]))]
            /\ pc' = [pc EXCEPT ![t] = "done"]
       ELSE /\ ret' = ret
            /\ pc' = [pc EXCEPT ![t] = "compare"]
    /\ UNCHANGED <<validator, built, heap, results, arg, expected_val>>

\* if value == &expected_val { Ok(()) } else { Err(InvalidValue(..)) }
Compare(t) ==
    /\ pc[t] = "compare"
    /\ ret' = [ret EXCEPT ![t] =
                 IF ValueEq(heap[arg[t]], expected_val[t])
                 THEN Ok
                 ELSE InvalidValue(arg[t], FmtDebug(validator.expected))]
    /\ pc' = [pc EXCEPT ![t] = "done"]
    /\ UNCHANGED <<validator, built, heap, results, arg, expected_val>>

\* The caller takes the result; the locals are gone.
Return(t) ==
    /\ pc[t] = "done"
    /\ pc' = [pc EXCEPT ![t] = "idle"]
    /\ arg' = [arg EXCEPT ![t] = NoAddr]
    /\ expected_val' = [expected_val EXCEPT ![t] = Uninit]
    /\ ret' = [ret EXCEPT ![t] = NoResult]
    /\ UNCHANGED <<validator, built, heap, results>>

NextShared ==
    \E t \in Threads :
        \/ Call(t)
        \/ AnyBody(t)
        \/ Convert(t)
        \/ TypeCheck(t)
        \/ Compare(t)
        \/ Return(t)

SpecShared == InitShared /\ [][NextShared]_vars

\* -------------------------------------------------------------------------
\* Properties
\* -------------------------------------------------------------------------
Called(a) == results[a] # NoResult

ExpectedVal == IntoValue(validator.expected)

\* C1: validate on the validator built by any() returns Ok(()) for every
\* value, whatever its variant; it never returns an error.
AnyAcceptsAll ==
    validator.kind = "any" => \A a \in Addrs : Called(a) => results[a] = Ok

AnyAcceptedEmptyArray ==
    \E a \in Addrs :
        validator.kind = "any" /\ heap[a] = Array(<<>>) /\ results[a] = Ok

\* C2: when the type id of the inspected value differs from the type id of
\* the expected value converted to a Value, eq(x).validate returns
\* InvalidType carrying the inspected value and the expected type id; it is
\* never InvalidValue.
EqTypePrecedence ==
    validator.kind = "eq" =>
        \A a \in Addrs :
            (Called(a) /\ get_value_type_id(heap[a]) # get_value_type_id(ExpectedVal))
                => results[a] = InvalidType(a, get_value_type_id(ExpectedVal))

\* eq(4) on the string "4"
EqNumberOnStringFailed ==
    \E a \in Addrs :
        /\ validator.kind = "eq"
        /\ validator.expected.ty \in UnsignedKinds \cup SignedKinds
        /\ validator.expected.i = 4
        /\ heap[a] = String(<<"4">>)
        /\ results[a] = InvalidType(a, get_value_type_id(Number(PosInt(4))))

\* C3: when the inspected value has the type id of the converted expected
\* value but is not structurally equal to it, eq(x).validate returns
\* InvalidValue carrying the inspected value and the Debug rendering of the
\* stored expected x itself.
EqValueMismatch ==
    validator.kind = "eq" =>
        \A a \in Addrs :
            (/\ Called(a)
             /\ get_value_type_id(heap[a]) = get_value_type_id(ExpectedVal)
             /\ ~ValueEq(heap[a], ExpectedVal))
                => results[a] = InvalidValue(a, FmtDebug(validator.expected))

\* eq(String::from("\"")) on the string "4": the payload is the quoted,
\* escaped literal, which is not how a Value renders.
EqStringMismatchReported ==
    \E a \in Addrs :
        /\ built = [how |-> "eq", arg |-> [ty |-> "String", s |-> <<"\"">>]]
        /\ heap[a] = String(<<"4">>)
        /\ results[a] = InvalidValue(a, <<"\"", "\\", "\"", "\"">>)

\* C4: eq is reflexive: eq(x).validate on x converted to a Value returns
\* Ok(()), also when both are the null variant.
EqReflexive ==
    validator.kind = "eq" =>
        \A a \in Addrs : (Called(a) /\ heap[a] = ExpectedVal) => results[a] = Ok

EqNullOnNullPassed ==
    \E a \in Addrs :
        /\ built = [how |-> "eq", arg |-> [ty |-> "Value", val |-> Null]]
        /\ heap[a] = Null
        /\ results[a] = Ok

\* C5: the validator a literal converts into returns, for every value, the
\* result that eq(literal) returns: same Ok, or same error kind, borrowed
\* value and payload.
LiteralLiftingIsEq ==
    built.how = "from" =>
        \A a \in Addrs :
            Called(a) => results[a] = validate(eq(built.arg), heap, a)

StrLiteralLiftedMismatch ==
    \E a \in Addrs :
        /\ built.how = "from"
        /\ built.arg.ty = "&str"
        /\ results[a].kind = "InvalidValue"

\* The outcome of a call apart from where the inspected value lives.
Outcome(r) ==
    CASE r.kind = "InvalidType" -> <<r.kind, heap[r.ref], r.type_id>>
      [] r.kind = "InvalidValue" -> <<r.kind, heap[r.ref], r.expected>>
      [] OTHER -> <<r.kind>>

EqValidatorImmutable ==
    /\ [](built.how = "eq" => validator = EqValidator(built.arg))
    /\ [][(validator # NoValidator /\ validator' # NoValidator)
            => (validator' = validator /\ heap' = heap)]_vars

EqValidatorAfterBothErrors ==
    \E a, b \in Addrs :
        /\ built.how = "eq"
        /\ results[a].kind = "InvalidType"
        /\ results[b].kind = "InvalidValue"

\* C8: concurrent validate calls on one validator: under every interleaving
\* a call returns what it returns when run alone, and the validator stays
\* as constructed.
ConcurrentCallsIndependent ==
    /\ \A t \in Threads : pc[t] = "done" => ret[t] = validate(validator, heap, arg[t])
    /\ validator = (IF built.how = "any" THEN any ELSE eq(built.arg))

TwoCallsInFlight ==
    \E t, u \in Threads :
        /\ t # u
        /\ pc[t] = "done"
        /\ ret[t].kind = "InvalidValue"
        /\ pc[u] = "compare"
        /\ arg[u] # arg[t]

\* C9: every validate call ends with Ok(()), InvalidType or InvalidValue,
\* and an error carries the inspected value itself.
ThreeOutcomes ==
    \A a \in Addrs :
        Called(a) =>
            /\ results[a].kind \in {"Ok", "InvalidType", "InvalidValue"}
            /\ results[a].kind # "Ok" => results[a].ref = a

\* a non-finite float as the expected value, and an equal value at the
\* other address
ErrorBorrowsInspected ==
    \E a, b \in Addrs :
        /\ a # b
        /\ heap[a] = heap[b]
        /\ validator.kind = "eq"
        /\ validator.expected.ty \in FloatKinds
        /\ validator.expected.f.cls # "fin"
        /\ results[a].kind = "InvalidType"
        /\ results[a].ref = a

\* C10: eq(x).validate(v) returns Ok(()) exactly when v is structurally
\* equal to x converted to a Value; structurally equal values have the same
\* type id, so the type check rejects none of them.
EqOkIffEqual ==
    validator.kind = "eq" =>
        \A a \in Addrs :
            /\ Called(a) => (results[a] = Ok <=> ValueEq(heap[a], ExpectedVal))
            /\ ValueEq(heap[a], ExpectedVal)
                    => get_value_type_id(heap[a]) = get_value_type_id(ExpectedVal)

\* -0.0 expected, 0.0 inspected: equal, though not the same bits
EqualNotIdenticalPassed ==
    \E a \in Addrs :
        /\ validator.kind = "eq"
        /\ heap[a] # ExpectedVal
        /\ results[a] = Ok

====
